---- MODULE Spec2Model ----
(***************************************************************************)
(* The history-to-curve pipeline of the climate card.                      *)
(*                                                                         *)
(* The repository holds two ClimateCard classes with a temperature graph:  *)
(*   "gauss"  : climate-card-test.ts lines 70..938   (Gaussian two-pass     *)
(*              smoothing, window 9, 50 points, buffered integer range)     *)
(*   "simple" : climate-card-test.ts lines 1008..1811 (moving average,      *)
(*              window 5, 20 points, range = min/max of the sampled data)   *)
(* The variable `variant` says which class the card instance is.           *)
(*                                                                         *)
(* The module also models the controls of the card (_controls,            *)
(* updateActiveControl) and the temperature control element               *)
(* (chrum-climate-temperature-control), whose setpoints are whole degrees.*)
(*                                                                         *)
(* Graph values are fixed-point: an integer n stands for n / Unit degrees. *)
(* A division is rounded to the nearest fixed-point number.                *)
(***************************************************************************)
EXTENDS Integers, Sequences, FiniteSets, TLC

VARIABLES
    variant,        \* which ClimateCard class this instance is
    hass,           \* the host object: [defined, states]
    _graphEntity,   \* @state _graphEntity ("" when not configured)
    _graphHours,    \* @state _graphHours
    _graphHeight,   \* @state _graphHeight (the literal 50 in the simple class)
    _graphCurveTension, \* @state _graphCurveTension, in hundredths
    _graphLineWidth,    \* @state _graphLineWidth (the literal 2 in the simple class)
    _graphData,     \* @state _graphData
    _graphMin,      \* @state _graphMin
    _graphMax,      \* @state _graphMax
    pending,        \* history requests in flight: set of [id, entity]
    nextId,         \* number of the next history request
    last,           \* how the most recently finished updateGraphData call ended
    source,         \* the last settled fetch that yielded samples:
                    \*   [id, items, entity]
    view,           \* what the last render() showed:
                    \*   [visible, points, stroke, fill]
    promise,        \* the promise of the updateGraphData call that ended last
    _config,        \* the options of _config the controls depend on
                    \*   ({} before setConfig)
    _activeControl, \* @state _activeControl ({} is undefined)
    fnData,         \* input sequence of the pure-function harness
    fnWindow,       \* windowSize argument of the harness
    fnTarget,       \* targetPoints argument of the harness
    fnArgs,         \* the other arguments of the function applied
    fnOp,           \* which function the harness applied last
    fnOut,          \* its result
    entity,         \* temperature control: the climate entity's attributes
    _localTemperature,      \* @state _localTemperature ({} is undefined)
    _localLowTemperature,   \* @state _localLowTemperature
    _localHighTemperature,  \* @state _localHighTemperature
    call,           \* data of the last set_temperature service call
    sent            \* number of set_temperature service calls

cfgVars == <<_graphHours, _graphHeight, _graphCurveTension, _graphLineWidth>>
ctlVars == <<_config, _activeControl>>
cardVars == <<variant, hass, _graphEntity, _graphData, _graphMin, _graphMax,
              pending, nextId, last, source, view, promise,
              _graphHours, _graphHeight, _graphCurveTension, _graphLineWidth,
              _config, _activeControl>>
fnVars == <<fnData, fnWindow, fnTarget, fnArgs, fnOp, fnOut>>
localVars == <<_localTemperature, _localLowTemperature, _localHighTemperature>>
tempVars == <<entity, _localTemperature, _localLowTemperature,
              _localHighTemperature, call, sent>>
vars == <<variant, hass, _graphEntity, _graphData, _graphMin, _graphMax,
          pending, nextId, last, source, view, promise,
          _graphHours, _graphHeight, _graphCurveTension, _graphLineWidth,
          _config, _activeControl,
          fnData, fnWindow, fnTarget, fnArgs, fnOp, fnOut,
          entity, _localTemperature, _localLowTemperature,
          _localHighTemperature, call, sent>>

----------------------------------------------------------------------------
(* Bounds of the model *)

MaxItems == 1       \* longest history enumerated exhaustively
MaxFetches == 2     \* history requests issued in one behaviour
MaxLen == 5         \* longest input of the pure-function harness
MaxWindow == 4      \* largest windowSize of the harness
MaxTarget == 4      \* largest targetPoints of the harness
MaxCalls == 2       \* set_temperature service calls in one behaviour

(* Program constants *)

GaussWindow == 9
GaussTarget == 50
SimpleWindow == 5
SimpleTarget == 20
SecondPassRadius == 2
DefaultHours == 24
DefaultHeight == 80
DefaultTension == 30        \* 0.3, in hundredths
DefaultLineWidth == 2
SimpleHeight == 50
SimpleLineWidth == 2
Width == 500
DefaultMinTemp == 7
DefaultMaxTemp == 35

Unit == 10 * 10     \* fixed-point resolution: hundredths of a degree

Variants == {"gauss", "simple"}
Entities == {"sensor.a"}

----------------------------------------------------------------------------
(* Arithmetic *)

Min(a, b) == IF a <= b THEN a ELSE b
Max(a, b) == IF a >= b THEN a ELSE b
Abs(a) == IF a < 0 THEN -a ELSE a

\* Math.floor(a / b) and Math.ceil(a / b) for b > 0 (\div rounds down)
FloorDiv(a, b) == a \div b
CeilDiv(a, b) == -((-a) \div b)
\* a / b rounded to the nearest fixed-point number, b > 0
RoundDiv(a, b) == (2 * a + b) \div (2 * b)

RECURSIVE SeqMin(_)
SeqMin(s) == IF Len(s) = 1 THEN s[1] ELSE Min(s[1], SeqMin(Tail(s)))
RECURSIVE SeqMax(_)
SeqMax(s) == IF Len(s) = 1 THEN s[1] ELSE Max(s[1], SeqMax(Tail(s)))

RECURSIVE SumOver(_, _, _)
\* f[lo] + ... + f[hi]
SumOver(f, lo, hi) == IF lo > hi THEN 0 ELSE f[lo] + SumOver(f, lo + 1, hi)

Last(s) == s[Len(s)]

\* The function f with every value computed (f @@ g is f extended by g)
Tabulated(f) == f @@ <<>>

\* All sequences over S of length at most n
SeqsUpTo(S, n) == UNION {[1..k -> S] : k \in 0..n}

----------------------------------------------------------------------------
(* smoothData *)

\* 1000 * Math.exp(-(distance * distance) / (windowSize / 2)), rounded,
\* for windowSize 1..10 and distance 0..floor(windowSize / 2)
ExpTable ==
    << <<1000>>,
       <<1000, 368>>,
       <<1000, 513>>,
       <<1000, 607, 135>>,
       <<1000, 670, 202>>,
       <<1000, 717, 264, 50>>,
       <<1000, 751, 319, 76>>,
       <<1000, 779, 368, 105, 18>>,
       <<1000, 801, 411, 135, 29>>,
       <<1000, 819, 449, 165, 41, 7>> >>

GaussWeight(distance, windowSize) == ExpTable[windowSize][distance + 1]

\* The window of position i (1-based): Math.max(0, i - floor(w/2)) ..
\* Math.min(length - 1, i + floor(w/2))
WindowLo(i, windowSize) == Max(1, i - (windowSize \div 2))
WindowHi(i, n, windowSize) == Min(n, i + (windowSize \div 2))

\* First pass of the Gaussian variant: weighted moving average
FirstPass(data, windowSize) ==
    [i \in 1..Len(data) |->
        LET lo == WindowLo(i, windowSize)
            hi == WindowHi(i, Len(data), windowSize)
            w == [j \in lo..hi |-> GaussWeight(Abs(i - j), windowSize)]
            sum == SumOver([j \in lo..hi |-> data[j] * w[j]], lo, hi)
            weightSum == SumOver(w, lo, hi)
        IN  RoundDiv(sum, weightSum)]

\* Second pass of the Gaussian variant: simple moving average of radius 2
SecondPass(firstPass) ==
    [i \in 1..Len(firstPass) |->
        LET lo == Max(1, i - SecondPassRadius)
            hi == Min(Len(firstPass), i + SecondPassRadius)
        IN  RoundDiv(SumOver(firstPass, lo, hi), hi - lo + 1)]

smoothDataGauss(data, windowSize) ==
    IF Len(data) <= windowSize THEN data
    ELSE SecondPass(FirstPass(data, windowSize))

\* The simple variant: moving average over the truncated window
MovingAverage(data, windowSize) ==
    [i \in 1..Len(data) |->
        LET lo == WindowLo(i, windowSize)
            hi == WindowHi(i, Len(data), windowSize)
        IN  RoundDiv(SumOver(data, lo, hi), hi - lo + 1)]

smoothDataSimple(data, windowSize) ==
    IF Len(data) <= windowSize THEN data
    ELSE MovingAverage(data, windowSize)

\* A smoothing that keeps only the positions whose window is complete
smoothDataFullWindows(v, data, windowSize) ==
    IF Len(data) <= windowSize THEN data
    ELSE LET half == windowSize \div 2
             all == IF v = "gauss" THEN smoothDataGauss(data, windowSize)
                    ELSE smoothDataSimple(data, windowSize)
         IN  SubSeq(all, 1 + half, Len(data) - half)

\* The passes of the class v, whatever the length
Passes(v, data, windowSize) ==
    IF v = "gauss" THEN SecondPass(FirstPass(data, windowSize))
    ELSE MovingAverage(data, windowSize)

\* A smoothing over windows padded with zeros to their full width
smoothDataPadded(v, data, windowSize) ==
    IF Len(data) <= windowSize THEN data
    ELSE [i \in 1..Len(data) |->
            RoundDiv(SumOver(data, WindowLo(i, windowSize),
                             WindowHi(i, Len(data), windowSize)),
                     2 * (windowSize \div 2) + 1)]

\* A smoothing that skips only the inputs shorter than the window
smoothDataShorterOnly(v, data, windowSize) ==
    IF Len(data) < windowSize THEN data ELSE Passes(v, data, windowSize)

\* A smoothing that also skips the inputs of up to twice the window
smoothDataSkipTwice(v, data, windowSize) ==
    IF Len(data) <= 2 * windowSize THEN data
    ELSE Passes(v, data, windowSize)

smoothData(v, data, windowSize) ==
    IF v = "gauss" THEN smoothDataGauss(data, windowSize)
    ELSE smoothDataSimple(data, windowSize)

----------------------------------------------------------------------------
(* sampleData (the same code in both classes) *)

\* result of the stride loop: data[floor(i * length / targetPoints)],
\* i = 0 .. targetPoints - 1 (0-based); 1-based here
Strided(data, targetPoints) ==
    [i \in 1..targetPoints |->
        data[(((i - 1) * Len(data)) \div targetPoints) + 1]]

\* A sampling that appends the last point without comparing it
sampleDataAlwaysAppend(data, targetPoints) ==
    IF Len(data) <= targetPoints THEN data
    ELSE Append(Strided(data, targetPoints), Last(data))

\* A sampling that never appends the last point
sampleDataStrideOnly(data, targetPoints) ==
    IF Len(data) <= targetPoints THEN data
    ELSE Strided(data, targetPoints)

sampleData(data, targetPoints) ==
    IF Len(data) <= targetPoints THEN data
    ELSE LET result == Strided(data, targetPoints)
         IN  IF Len(result) > 0 /\ Last(result) # Last(data)
             THEN Append(result, Last(data))
             ELSE result

----------------------------------------------------------------------------
(* The history response and its parsing *)

\* item.state strings the host may report
StateStrings == {"18", "21.5", "-0.5", "unavailable"}

\* parseFloat(item.state): the number in fixed point, or NaN
parseFloat(s) ==
    CASE s = "18"   -> [nan |-> FALSE, num |-> 18 * Unit]
      [] s = "21.5" -> [nan |-> FALSE, num |-> (215 * Unit) \div 10]
      [] s = "-0.5" -> [nan |-> FALSE, num |-> -((5 * Unit) \div 10)]
      [] OTHER      -> [nan |-> TRUE, num |-> 0]

\* A parsing that puts 0 in the place of a reading that is not a number
RawDataZeroFilled(items) ==
    [i \in 1..Len(items) |->
        IF parseFloat(items[i]).nan THEN 0 ELSE parseFloat(items[i]).num]

\* history[0].map(item => parseFloat(item.state)).filter(v => !isNaN(v))
RawData(items) ==
    LET parsed == [i \in 1..Len(items) |-> parseFloat(items[i])]
        kept == SelectSeq(parsed, LAMBDA p : ~p.nan)
    IN  [i \in 1..Len(kept) |-> kept[i].num]

Flat(n, s) == [i \in 1..n |-> s]
Alternating(n, a, b) == [i \in 1..n |-> IF i % 2 = 1 THEN a ELSE b]

\* Lengths that make smoothing (> 9, > 5) and striding (> 50, > 20) run
LongLens == {10, 21, 51}
LongHistories ==
    {Flat(10, "18"), Alternating(21, "18", "unavailable")}
    \cup {Alternating(n, "18", "21.5") : n \in LongLens}
    \cup {Alternating(n, "21.5", "-0.5") : n \in LongLens}

\* Short histories that mix values and unparsable items
MixedHistories ==
    {<<"18", "21.5">>, <<"unavailable", "unavailable">>,
     <<"21.5", "unavailable", "-0.5">>, <<"-0.5", "18", "18">>}

Histories ==
    SeqsUpTo(StateStrings, MaxItems) \cup MixedHistories \cup LongHistories

\* RawData of every history, computed once
Raw == Tabulated([h \in Histories |-> RawData(h)])

\* What the awaited callApi can do: reject; resolve to null, to [], to a
\* list whose first element is not a list ("malformed": history[0].length
\* throws inside the try block), or to [items]
Responses ==
    {[kind |-> k, items |-> <<>>] : k \in {"reject", "null", "empty", "malformed"}}
    \cup {[kind |-> "ok", items |-> h] : h \in Histories}

----------------------------------------------------------------------------
(* updateGraphData *)

InitSeries == [data |-> <<>>, min |-> 0, max |-> 0]

\* Gaussian class: range from the raw data with a buffer, then smooth, sample
ProcessGauss(rawData) ==
    LET rawMin == SeqMin(rawData)
        rawMax == SeqMax(rawData)
        \* five times buffer = Math.max(1, (rawMax - rawMin) * 0.2)
        buffer5 == Max(5 * Unit, rawMax - rawMin)
        min == FloorDiv(5 * rawMin - buffer5, 5 * Unit) * Unit
        max == CeilDiv(5 * rawMax + buffer5, 5 * Unit) * Unit
        smoothedData == smoothData("gauss", rawData, GaussWindow)
        sampledData == sampleData(smoothedData, GaussTarget)
    IN  [data |-> sampledData, min |-> min, max |-> max]

\* Simple class: smooth, sample, then range = min/max of the sampled data
ProcessSimple(rawData) ==
    LET smoothedData == smoothData("simple", rawData, SimpleWindow)
        sampledData == sampleData(smoothedData, SimpleTarget)
    IN  [data |-> sampledData,
         min |-> SeqMin(sampledData),
         max |-> SeqMax(sampledData)]

Process(v, rawData) ==
    IF v = "gauss" THEN ProcessGauss(rawData) ELSE ProcessSimple(rawData)

\* Process of every history that has a parsable item, computed once
Processed ==
    Tabulated([p \in Variants \X {g \in Histories : Len(Raw[g]) > 0} |->
                  Process(p[1], Raw[p[2]])])

\* The series a response with samples gives
Fresh(v, resp) == Processed[<<v, resp.items>>]
HasSamples(resp) ==
    resp.kind = "ok" /\ Len(resp.items) > 0 /\ Len(Raw[resp.items]) > 0

\* A catch block that blanks the graph
ResumeClearOnError(v, old, resp) ==
    IF resp.kind \in {"reject", "malformed"} THEN InitSeries
    ELSE IF HasSamples(resp) THEN Fresh(v, resp) ELSE old

\* A continuation without the rawData.length > 0 guard
ResumeStoreEmpty(v, old, resp) ==
    IF resp.kind \in {"reject", "malformed"} THEN old
    ELSE IF resp.kind = "ok" /\ Len(resp.items) > 0
         THEN IF HasSamples(resp) THEN Fresh(v, resp) ELSE InitSeries
         ELSE old

\* A continuation that replaces the data and keeps the old range
ResumeDataOnly(v, old, resp) ==
    IF HasSamples(resp)
    THEN [data |-> Fresh(v, resp).data, min |-> old.min, max |-> old.max]
    ELSE old

\* A continuation that stores only the first series it gets
ResumeKeepFirst(v, old, resp) ==
    IF HasSamples(resp) /\ old.data = <<>> THEN Fresh(v, resp) ELSE old

\* The part of updateGraphData after the await: the series stored when the
\* call returns, given the series stored before (old)
Resume(v, old, resp) ==
    IF resp.kind \in {"reject", "malformed"}
    THEN old                                   \* catch: console.error only
    ELSE IF resp.kind = "ok" /\ Len(resp.items) > 0
         THEN IF Len(Raw[resp.items]) > 0
              THEN Processed[<<v, resp.items>>]
              ELSE old
         ELSE old

\* The part of updateGraphData before the await: does it issue a request?
Requests(h, entityId) ==
    h.defined /\ entityId # "" /\ entityId \in h.states

----------------------------------------------------------------------------
(* generateGraphPath *)

\* A JavaScript number: NaN, or a fixed-point value
Num(n) == [nan |-> FALSE, num |-> n]
NaN == [nan |-> TRUE, num |-> 0]

\* this._graphMax - this._graphMin || 1
RangeOf(series) ==
    IF series.max - series.min = 0 THEN Unit ELSE series.max - series.min

\* (index / (dataPoints - 1)) * width, index 0-based; 0 / 0 is NaN
PointX(index, dataPoints) ==
    IF dataPoints = 1 THEN NaN
    ELSE Num(RoundDiv(index * Width * Unit, dataPoints - 1))

\* Gaussian class: height - ((value - min) / range) * height * 0.95
\*                 + height * 0.025
PointYGauss(value, series, height) ==
    Num(height * Unit
        - RoundDiv((value - series.min) * height * ((95 * Unit) \div 100),
                   RangeOf(series))
        + RoundDiv(height * 25 * Unit, 1000))

\* Simple class: height - ((value - min) / range) * height * 0.8
\*               + height * 0.1
PointYSimple(value, series, height) ==
    Num(height * Unit
        - RoundDiv((value - series.min) * height * ((80 * Unit) \div 100),
                   RangeOf(series))
        + RoundDiv(height * 10 * Unit, 100))

\* points = this._graphData.map((value, index) => ({x, y}))
CurvePoints(v, series, height) ==
    [i \in 1..Len(series.data) |->
        [x |-> PointX(i - 1, Len(series.data)),
         y |-> IF v = "gauss"
               THEN PointYGauss(series.data[i], series, height)
               ELSE PointYSimple(series.data[i], series, height)]]

MoveTo(p) == [op |-> "M", x |-> p.x, y |-> p.y]
LineTo(x, y) == [op |-> "L", x |-> Num(x), y |-> Num(y)]
CurveTo(x1, y1, x2, y2, p) ==
    [op |-> "C", x1 |-> Num(x1), y1 |-> Num(y1),
     x2 |-> Num(x2), y2 |-> Num(y2), x |-> p.x, y |-> p.y]
ClosePath == [op |-> "Z"]

\* ((a * 0.7 + b * 0.3) * tension) / 3, tension in hundredths
Tangent3(a, b, tension) == RoundDiv((a * 7 + b * 3) * tension, 10 * 100 * 3)

\* Gaussian class: the cubic segment from points[i] to points[i + 1]
\* (i 1-based), its control points from the weighted tangents
SegmentGauss(points, i, tension) ==
    LET n == Len(points)
        cx == points[i].x.num
        cy == points[i].y.num
        nx == points[i + 1].x.num
        ny == points[i + 1].y.num
        xDiff == nx - cx
        prev1 == IF i > 1 THEN [x |-> points[i - 1].x.num, y |-> points[i - 1].y.num]
                 ELSE [x |-> cx - xDiff, y |-> cy]
        prev2 == IF i > 2 THEN [x |-> points[i - 2].x.num, y |-> points[i - 2].y.num]
                 ELSE prev1
        nextNext1 == IF i < n - 1
                     THEN [x |-> points[i + 2].x.num, y |-> points[i + 2].y.num]
                     ELSE [x |-> nx + xDiff, y |-> ny]
        nextNext2 == IF i < n - 2
                     THEN [x |-> points[i + 3].x.num, y |-> points[i + 3].y.num]
                     ELSE nextNext1
    IN  CurveTo(cx + Tangent3(nx - prev1.x, nx - prev2.x, tension),
                cy + Tangent3(ny - prev1.y, ny - prev2.y, tension),
                nx - Tangent3(nextNext1.x - cx, nextNext2.x - cx, tension),
                ny - Tangent3(nextNext1.y - cy, nextNext2.y - cy, tension),
                points[i + 1])

\* Simple class: control points a third of the way along x, at the end
\* points' heights
SegmentSimple(points, i) ==
    LET cx == points[i].x.num
        nx == points[i + 1].x.num
    IN  CurveTo(cx + RoundDiv(nx - cx, 3), points[i].y.num,
                nx - RoundDiv(nx - cx, 3), points[i + 1].y.num,
                points[i + 1])

\* The bottom edge that closes the fill area
Bottom(height, includeBottom) ==
    IF includeBottom
    THEN <<LineTo(Width * Unit, height * Unit), LineTo(0, height * Unit),
           ClosePath>>
    ELSE <<>>

\* A generator without the early return on an empty series
generateGraphPathNoReturn(v, series, height, tension, includeBottom) ==
    IF Len(series.data) = 0 THEN Bottom(height, includeBottom)
    ELSE LET points == CurvePoints(v, series, height)
         IN  <<MoveTo(points[1])>>
             \o [i \in 1..(Len(points) - 1) |->
                   IF v = "gauss" THEN SegmentGauss(points, i, tension)
                   ELSE SegmentSimple(points, i)]
             \o Bottom(height, includeBottom)

\* A generator whose fill area is the polygon under the first point
generateGraphPathFlatFill(v, series, height, tension, includeBottom) ==
    IF Len(series.data) = 0 THEN <<>>
    ELSE LET points == CurvePoints(v, series, height)
         IN  <<MoveTo(points[1])>>
             \o (IF includeBottom THEN <<>>
                 ELSE [i \in 1..(Len(points) - 1) |->
                         IF v = "gauss" THEN SegmentGauss(points, i, tension)
                         ELSE SegmentSimple(points, i)])
             \o Bottom(height, includeBottom)

\* A generator that leaves out the segment to the last point
generateGraphPathOpen(v, series, height, tension, includeBottom) ==
    IF Len(series.data) = 0 THEN <<>>
    ELSE LET points == CurvePoints(v, series, height)
         IN  <<MoveTo(points[1])>>
             \o [i \in 1..(Len(points) - 2) |->
                   IF v = "gauss" THEN SegmentGauss(points, i, tension)
                   ELSE SegmentSimple(points, i)]
             \o Bottom(height, includeBottom)

\* The path as the sequence of its commands; <<>> is the empty string
generateGraphPath(v, series, height, tension, includeBottom) ==
    IF Len(series.data) = 0 THEN <<>>
    ELSE LET points == CurvePoints(v, series, height)
             curves == [i \in 1..(Len(points) - 1) |->
                          IF v = "gauss" THEN SegmentGauss(points, i, tension)
                          ELSE SegmentSimple(points, i)]
         IN  <<MoveTo(points[1])>> \o curves \o Bottom(height, includeBottom)

----------------------------------------------------------------------------
(* The temperature control (chrum-climate-temperature-control) *)
(* Temperatures and amounts are whole degrees; {} is undefined, {n} is n *)

NoAttributes ==
    [temperature |-> {}, target_temp_low |-> {}, target_temp_high |-> {},
     min_temp |-> {}, max_temp |-> {}]

NoCall == [temperature |-> {}, target_temp_low |-> {}, target_temp_high |-> {}]

\* The value of an option that is defined
The(option) == CHOOSE x \in option : TRUE

\* The limits the entity declares: the attribute, 7 and 35 when absent
MinTemp(e) == IF e.min_temp = {} THEN DefaultMinTemp ELSE The(e.min_temp)
MaxTemp(e) == IF e.max_temp = {} THEN DefaultMaxTemp ELSE The(e.max_temp)

TempLimits == {<<{}, {}>>, <<{0}, {30}>>, <<{10}, {30}>>, <<{-20}, {0}>>}
TempValues == {-20, -5, 0, 3, 5, 10, 20, 30, 35}
TempOptions == {{}} \cup {{t} : t \in TempValues}

\* Is the setpoint t, when defined, within the limits e declares?
Within(e, t) == t = {} \/ (MinTemp(e) <= The(t) /\ The(t) <= MaxTemp(e))

\* Entities with one setpoint, with a low/high pair and with none, the
\* setpoints within the declared limits and low <= high
TempEntities ==
    {e \in [temperature : TempOptions, target_temp_low : TempOptions,
            target_temp_high : TempOptions,
            min_temp : {l[1] : l \in TempLimits},
            max_temp : {l[2] : l \in TempLimits}] :
        /\ <<e.min_temp, e.max_temp>> \in TempLimits
        /\ (e.target_temp_low = {}) = (e.target_temp_high = {})
        /\ e.temperature = {} \/ e.target_temp_low = {}
        /\ Within(e, e.temperature)
        /\ Within(e, e.target_temp_low)
        /\ Within(e, e.target_temp_high)
        /\ e.target_temp_low # {} =>
              The(e.target_temp_low) <= The(e.target_temp_high)}

Amounts == {-10, -1, 1, 10}

\* Math.max(min, Math.min(max, value))
Clamp(min, max, value) == Max(min, Min(max, value))

\* local !== undefined ? local : fallback
LocalOr(local, fallback) == IF local # {} THEN The(local) ELSE fallback

\* The element's state with no entity change seen
InitTempIdle ==
    /\ entity = NoAttributes
    /\ _localTemperature = {}
    /\ _localLowTemperature = {}
    /\ _localHighTemperature = {}
    /\ call = NoCall
    /\ sent = 0

----------------------------------------------------------------------------
(* The card as a state machine *)

Series == [data |-> _graphData, min |-> _graphMin, max |-> _graphMax]

\* How a settled request ended, read off the response alone
Outcome(resp) ==
    CASE resp.kind = "reject" -> "rejected"
      [] resp.kind = "malformed" -> "threw"
      [] resp.kind \in {"null", "empty"} -> "empty"
      [] resp.kind = "ok" /\ Len(resp.items) = 0 -> "empty"
      [] resp.kind = "ok" /\ Raw[resp.items] = <<>> -> "unparsable"
      [] OTHER -> "stored"

HassValues ==
    {[defined |-> TRUE, states |-> S, climate |-> {}] : S \in SUBSET Entities}

FnIdle ==
    /\ fnWindow = 0
    /\ fnTarget = 0
    /\ fnArgs = <<>>
    /\ fnOp = "idle"
    /\ fnOut = <<>>

\* The card after construction: the field initialisers of its class
InitCard ==
    /\ variant \in Variants
    /\ hass = [defined |-> FALSE, states |-> {}, climate |-> {}]
    /\ _graphEntity = ""
    /\ _graphHours = DefaultHours
    /\ _graphHeight = IF variant = "gauss" THEN DefaultHeight ELSE SimpleHeight
    /\ _graphCurveTension = IF variant = "gauss" THEN DefaultTension ELSE 0
    /\ _graphLineWidth =
          IF variant = "gauss" THEN DefaultLineWidth ELSE SimpleLineWidth
    /\ _graphData = InitSeries.data
    /\ _graphMin = InitSeries.min
    /\ _graphMax = InitSeries.max
    /\ pending = {}
    /\ nextId = 1
    /\ last = "none"
    /\ source = [id |-> 0, items |-> <<>>, entity |-> ""]
    /\ view = [visible |-> FALSE, points |-> 0, stroke |-> FALSE, fill |-> FALSE]
    /\ promise = "none"
    /\ _config = {}
    /\ _activeControl = {}

Init ==
    /\ InitCard
    /\ fnData = <<>>
    /\ FnIdle
    /\ InitTempIdle

\* A configuration: every option is absent ({}) or given ({value})
NoOptions ==
    [graph_entity |-> {}, graph_hours |-> {}, graph_height |-> {},
     graph_curve_tension |-> {}, graph_line_width |-> {},
     show_temperature_control |-> {}, hvac_modes |-> {}]

\* Configurations that set the graph entity only
EntityConfigs ==
    {[NoOptions EXCEPT !.graph_entity = e] : e \in {{}} \cup {{x} : x \in Entities}}

\* Configurations that also give one numeric option: inside its documented
\* range, on its edges, zero and outside (tension in hundredths)
NumericConfigs ==
    UNION {
        {[c EXCEPT !.graph_hours = {n}] : n \in {0, 1, 168, 500, -5}}
        \cup {[c EXCEPT !.graph_height = {n}] : n \in {40}}
        \cup {[c EXCEPT !.graph_curve_tension = {n}] : n \in {0, 5, 10, 100, 250}}
        \cup {[c EXCEPT !.graph_line_width = {n}] : n \in {0, 3, -1}}
        : c \in EntityConfigs}

Configs == EntityConfigs \cup NumericConfigs

\* The options of a configuration that the controls depend on
ControlOptions(config) ==
    [show_temperature_control |-> config.show_temperature_control,
     hvac_modes |-> config.hvac_modes]

\* isTemperatureControlVisible(entity)
isTemperatureControlVisible(stateObj) ==
    \/ stateObj.temperature # {}
    \/ stateObj.target_temp_low # {} /\ stateObj.target_temp_high # {}

\* isHvacModesVisible(stateObj, hvac_modes): the entity has one of the
\* configured modes
isHvacModesVisible(stateObj, modes) == stateObj.hvac_modes \cap modes # {}

\* get _controls(): the controls the card offers, in their order
Controls(config, h) ==
    IF config = {} \/ ~h.defined \/ h.climate = {} THEN <<>>
    ELSE LET options == CHOOSE c \in config : TRUE
             stateObj == CHOOSE o \in h.climate : TRUE
         IN  (IF /\ isTemperatureControlVisible(stateObj)
                 /\ options.show_temperature_control # {FALSE}
              THEN <<"temperature_control">> ELSE <<>>)
             \o (IF isHvacModesVisible(stateObj, options.hvac_modes)
                 THEN <<"hvac_mode_control">> ELSE <<>>)
             \o (IF stateObj.fan_modes # {} /\ stateObj.fan_modes # {0}
                 THEN <<"fan_mode_control">> ELSE <<>>)

\* The elements of a sequence
Range(seq) == {seq[i] : i \in 1..Len(seq)}

\* An updateActiveControl that always selects the first control
updateActiveControlFirst(active, controls) ==
    IF controls = <<>> THEN {} ELSE {controls[1]}

\* updateActiveControl(): the active control when the controls offer it,
\* else the first control (undefined when there is none)
updateActiveControl(active, controls) ==
    IF active # {} /\ active \subseteq Range(controls) THEN active
    ELSE IF controls = <<>> THEN {} ELSE {controls[1]}

\* JavaScript's option || fallback for a numeric option: an absent option
\* and the falsy value 0 give the fallback
OrElse(option, fallback) ==
    IF option = {} \/ option = {0} THEN fallback
    ELSE CHOOSE x \in option : TRUE

\* option || fallback for a string option: absent and "" give the fallback
OrElseText(option, fallback) ==
    IF option = {} \/ option = {""} THEN fallback
    ELSE CHOOSE x \in option : TRUE

\* A line width read with || alone: 0 gives the default
LineWidthOrDefault(config) == OrElse(config.graph_line_width, DefaultLineWidth)

\* graph_line_width === 0 ? 0 : Number(graph_line_width || 2)
LineWidthOf(config) ==
    IF config.graph_line_width = {0} THEN 0
    ELSE OrElse(config.graph_line_width, DefaultLineWidth)

\* setConfig: the Gaussian class stores six graph options, the simple class
\* the entity and the hours
SetConfig(config) ==
    /\ _graphEntity' = OrElseText(config.graph_entity, "")
    /\ _graphHours' = OrElse(config.graph_hours, DefaultHours)
    /\ IF variant = "gauss"
       THEN /\ _graphHeight' = OrElse(config.graph_height, DefaultHeight)
            /\ _graphCurveTension' =
                  OrElse(config.graph_curve_tension, DefaultTension)
            /\ _graphLineWidth' = LineWidthOf(config)
       ELSE UNCHANGED <<_graphHeight, _graphCurveTension, _graphLineWidth>>
    /\ _config' = {ControlOptions(config)}
    /\ _activeControl' =
          updateActiveControl(_activeControl, Controls(_config', hass))
    /\ UNCHANGED <<variant, hass, _graphData, _graphMin, _graphMax, pending,
                   nextId, last, source, view, promise>>
    /\ UNCHANGED fnVars
    /\ UNCHANGED tempVars

\* An updated() that starts no request while another one is in flight
UpdatedUnlessPending(h) ==
    /\ hass' = h
    /\ IF Requests(h, _graphEntity) /\ pending = {}
       THEN /\ nextId <= MaxFetches
            /\ pending' = pending \cup {[id |-> nextId, entity |-> _graphEntity]}
            /\ nextId' = nextId + 1
            /\ UNCHANGED <<last, promise>>
       ELSE /\ UNCHANGED <<pending, nextId, last, promise>>
    /\ _activeControl' =
          updateActiveControl(_activeControl, Controls(_config, h))
    /\ UNCHANGED <<variant, _graphEntity, _graphData, _graphMin, _graphMax,
                   source, view, _config>>
    /\ UNCHANGED cfgVars
    /\ UNCHANGED fnVars
    /\ UNCHANGED tempVars

\* updated() of an update cycle in which hass changed to h: updateGraphData
\* runs up to its await (or returns at once)
Updated(h) ==
    /\ hass' = h
    /\ IF Requests(h, _graphEntity)
       THEN /\ nextId <= MaxFetches
            /\ pending' = pending \cup {[id |-> nextId, entity |-> _graphEntity]}
            /\ nextId' = nextId + 1
            /\ UNCHANGED <<last, promise>>
       ELSE /\ last' = "noentity"
            /\ promise' = "fulfilled"          \* return before the await
            /\ UNCHANGED <<pending, nextId>>
    /\ _activeControl' =
          updateActiveControl(_activeControl, Controls(_config, h))
    /\ UNCHANGED <<variant, _graphEntity, _graphData, _graphMin, _graphMax,
                   source, view, _config>>
    /\ UNCHANGED cfgVars
    /\ UNCHANGED fnVars
    /\ UNCHANGED tempVars

\* Does the code after the await raise an exception?  The awaited promise
\* rejects, or history[0].length reads a property of a non-object.
Throws(resp) == resp.kind \in {"reject", "malformed"}

\* An updateGraphData whose catch block throws the error again
PromiseRethrown(resp) ==
    IF Throws(resp) THEN "rejected" ELSE "fulfilled"

\* How the promise returned by updateGraphData settles: everything after
\* the await is inside try, and the catch block only logs
PromiseOf(resp) ==
    IF Throws(resp) THEN "fulfilled" ELSE "fulfilled"

\* A settling that ignores the result of a request started before the one
\* whose series is stored (request sequencing)
SettleGuarded(r, resp) ==
    /\ r \in pending
    /\ LET new == IF r.id < source.id THEN Series
                  ELSE Resume(variant, Series, resp)
       IN  /\ _graphData' = new.data
           /\ _graphMin' = new.min
           /\ _graphMax' = new.max
    /\ pending' = pending \ {r}
    /\ last' = Outcome(resp)
    /\ source' = IF Outcome(resp) = "stored" /\ r.id >= source.id
                 THEN [id |-> r.id, items |-> resp.items, entity |-> r.entity]
                 ELSE source
    /\ promise' = PromiseOf(resp)
    /\ UNCHANGED <<variant, hass, _graphEntity, nextId, view>>
    /\ UNCHANGED ctlVars
    /\ UNCHANGED cfgVars
    /\ UNCHANGED fnVars
    /\ UNCHANGED tempVars

\* The request r settles with resp and updateGraphData runs to its end
Settle(r, resp) ==
    /\ r \in pending
    /\ LET new == Resume(variant, Series, resp)
       IN  /\ _graphData' = new.data
           /\ _graphMin' = new.min
           /\ _graphMax' = new.max
    /\ pending' = pending \ {r}
    /\ last' = Outcome(resp)
    /\ source' = IF Outcome(resp) = "stored"
                 THEN [id |-> r.id, items |-> resp.items, entity |-> r.entity]
                 ELSE source
    /\ promise' = PromiseOf(resp)
    /\ UNCHANGED <<variant, hass, _graphEntity, nextId, view>>
    /\ UNCHANGED ctlVars
    /\ UNCHANGED cfgVars
    /\ UNCHANGED fnVars
    /\ UNCHANGED tempVars

\* Is the stroke path displayed?  display: none when the width is <= 0
StrokeShown(lineWidth) == lineWidth > 0

\* render(): the graph is shown when an entity is configured and data
\* exists; inside it the fill path is always drawn
Render ==
    /\ LET visible == _graphEntity # "" /\ Len(_graphData) > 0
       IN  view' = [visible |-> visible,
                    points |-> Len(_graphData),
                    stroke |-> visible /\ StrokeShown(_graphLineWidth),
                    fill |-> visible]
    /\ UNCHANGED <<variant, hass, _graphEntity, _graphData, _graphMin,
                   _graphMax, pending, nextId, last, source, promise>>
    /\ UNCHANGED ctlVars
    /\ UNCHANGED cfgVars
    /\ UNCHANGED fnVars
    /\ UNCHANGED tempVars

Next ==
    \/ \E c \in EntityConfigs : SetConfig(c)
    \/ \E h \in HassValues : Updated(h)
    \/ \E r \in pending, resp \in Responses : Settle(r, resp)
    \/ Render

Spec == Init /\ [][Next]_vars

----------------------------------------------------------------------------
(* The temperature control as a state machine *)

\* The element after its first update: updated() saw the entity
InitTemp ==
    /\ InitCard
    /\ variant = "gauss"
    /\ fnData = <<>>
    /\ FnIdle
    /\ entity \in TempEntities
    /\ _localTemperature = entity.temperature
    /\ _localLowTemperature = entity.target_temp_low
    /\ _localHighTemperature = entity.target_temp_high
    /\ call = NoCall
    /\ sent = 0

\* An updated() that keeps the setpoints adjusted locally
EntityChangedKeepLocal(e) ==
    /\ entity' = e
    /\ _localTemperature' = e.temperature
    /\ _localLowTemperature' =
          IF _localLowTemperature # {} THEN _localLowTemperature
          ELSE e.target_temp_low
    /\ _localHighTemperature' = e.target_temp_high
    /\ UNCHANGED <<call, sent>>
    /\ UNCHANGED <<cardVars, fnVars>>

\* The host sets the entity property to e and updated() runs
EntityChanged(e) ==
    /\ entity' = e
    /\ _localTemperature' = e.temperature
    /\ _localLowTemperature' = e.target_temp_low
    /\ _localHighTemperature' = e.target_temp_high
    /\ UNCHANGED <<call, sent>>
    /\ UNCHANGED <<cardVars, fnVars>>

\* _adjustTemperature(amount)
AdjustTemperature(amount) ==
    /\ IF entity.temperature = {}
       THEN UNCHANGED tempVars
       ELSE LET current == LocalOr(_localTemperature, The(entity.temperature))
                min == OrElse(entity.min_temp, DefaultMinTemp)
                max == OrElse(entity.max_temp, DefaultMaxTemp)
            IN  /\ sent < MaxCalls
                /\ _localTemperature' = {Clamp(min, max, current + amount)}
                /\ call' = [NoCall EXCEPT !.temperature = _localTemperature']
                /\ sent' = sent + 1
                /\ UNCHANGED <<entity, _localLowTemperature,
                               _localHighTemperature>>
    /\ UNCHANGED <<cardVars, fnVars>>

\* _adjustLowTemperature(amount)
AdjustLowTemperature(amount) ==
    /\ IF entity.target_temp_low = {}
       THEN UNCHANGED tempVars
       ELSE LET current == LocalOr(_localLowTemperature,
                                   The(entity.target_temp_low))
                min == OrElse(entity.min_temp, DefaultMinTemp)
                highTemp == LocalOr(_localHighTemperature,
                               OrElse(entity.target_temp_high, DefaultMaxTemp))
                max == Min(OrElse(entity.max_temp, DefaultMaxTemp), highTemp)
            IN  /\ sent < MaxCalls
                /\ _localLowTemperature' = {Clamp(min, max, current + amount)}
                /\ call' = [NoCall EXCEPT
                              !.target_temp_low = _localLowTemperature',
                              !.target_temp_high = entity.target_temp_high]
                /\ sent' = sent + 1
                /\ UNCHANGED <<entity, _localTemperature,
                               _localHighTemperature>>
    /\ UNCHANGED <<cardVars, fnVars>>

\* _adjustHighTemperature(amount)
AdjustHighTemperature(amount) ==
    /\ IF entity.target_temp_high = {}
       THEN UNCHANGED tempVars
       ELSE LET current == LocalOr(_localHighTemperature,
                                   The(entity.target_temp_high))
                lowTemp == LocalOr(_localLowTemperature,
                              OrElse(entity.target_temp_low, DefaultMinTemp))
                min == Max(OrElse(entity.min_temp, DefaultMinTemp), lowTemp)
                max == OrElse(entity.max_temp, DefaultMaxTemp)
            IN  /\ sent < MaxCalls
                /\ _localHighTemperature' = {Clamp(min, max, current + amount)}
                /\ call' = [NoCall EXCEPT
                              !.target_temp_low = entity.target_temp_low,
                              !.target_temp_high = _localHighTemperature']
                /\ sent' = sent + 1
                /\ UNCHANGED <<entity, _localTemperature,
                               _localLowTemperature>>
    /\ UNCHANGED <<cardVars, fnVars>>

NextTemp ==
    \/ \E e \in TempEntities : EntityChanged(e)
    \/ \E amount \in Amounts : AdjustTemperature(amount)
    \/ \E amount \in Amounts : AdjustLowTemperature(amount)
    \/ \E amount \in Amounts : AdjustHighTemperature(amount)

SpecTemp == InitTemp /\ [][NextTemp]_vars

\* The card under every configuration, with a few responses
CfgResponses ==
    {[kind |-> "reject", items |-> <<>>],
     [kind |-> "ok", items |-> <<"18">>],
     [kind |-> "ok", items |-> <<"18", "21.5">>]}

NextCfg ==
    \/ \E c \in Configs : SetConfig(c)
    \/ \E h \in HassValues : Updated(h)
    \/ \E r \in pending, resp \in CfgResponses : Settle(r, resp)
    \/ Render

SpecCfg == Init /\ [][NextCfg]_vars

\* The card and its controls, without a graph entity
ClimateStates ==
    [temperature : {{}, {20}}, target_temp_low : {{}, {18}},
     target_temp_high : {{}, {22}}, hvac_modes : SUBSET {"heat"},
     fan_modes : {{}, {0}, {2}}]

CtlHass ==
    {[defined |-> TRUE, states |-> {}, climate |-> c] :
        c \in {{}} \cup {{o} : o \in ClimateStates}}

CtlConfigs ==
    {[NoOptions EXCEPT !.show_temperature_control = show, !.hvac_modes = modes] :
        show \in {{}, {TRUE}, {FALSE}}, modes \in SUBSET {"heat"}}

\* _onControlTap(ctrl, e): a tap on the button of an offered control
OnControlTap(ctrl) ==
    /\ ctrl \in Range(Controls(_config, hass))
    /\ _activeControl' = {ctrl}
    /\ UNCHANGED <<variant, hass, _graphEntity, _graphData, _graphMin,
                   _graphMax, pending, nextId, last, source, view, promise,
                   _config>>
    /\ UNCHANGED cfgVars
    /\ UNCHANGED fnVars
    /\ UNCHANGED tempVars

ControlNames == {"temperature_control", "hvac_mode_control", "fan_mode_control"}

NextCtl ==
    \/ \E c \in CtlConfigs : SetConfig(c)
    \/ \E h \in CtlHass : Updated(h)
    \/ \E ctrl \in ControlNames : OnControlTap(ctrl)

SpecCtl == Init /\ [][NextCtl]_vars

\* The card reconfigured between two graph entities of the host
GraphEntities == {"sensor.a", "sensor.b"}

NextEnt ==
    \/ \E x \in GraphEntities :
          SetConfig([NoOptions EXCEPT !.graph_entity = {x}])
    \/ Updated([defined |-> TRUE, states |-> GraphEntities, climate |-> {}])
    \/ \E r \in pending, resp \in CfgResponses : Settle(r, resp)
    \/ Render

SpecEnt == Init /\ [][NextEnt]_vars

----------------------------------------------------------------------------
(* The pure functions applied to enumerated inputs *)

FnValues == {10 * Unit, 13 * Unit, 20 * Unit}

InitFn ==
    /\ variant \in Variants
    /\ hass = [defined |-> FALSE, states |-> {}, climate |-> {}]
    /\ _graphEntity = ""
    /\ _graphData = InitSeries.data
    /\ _graphMin = InitSeries.min
    /\ _graphMax = InitSeries.max
    /\ pending = {}
    /\ nextId = 1
    /\ last = "none"
    /\ source = [id |-> 0, items |-> <<>>, entity |-> ""]
    /\ view = [visible |-> FALSE, points |-> 0, stroke |-> FALSE, fill |-> FALSE]
    /\ promise = "none"
    /\ _config = {}
    /\ _activeControl = {}
    /\ _graphHours = DefaultHours
    /\ _graphHeight = (IF variant = "gauss" THEN DefaultHeight ELSE SimpleHeight)
    /\ _graphCurveTension = (IF variant = "gauss" THEN DefaultTension ELSE 0)
    /\ _graphLineWidth =
          (IF variant = "gauss" THEN DefaultLineWidth ELSE SimpleLineWidth)
    /\ fnData \in SeqsUpTo(FnValues, MaxLen)
    /\ FnIdle
    /\ InitTempIdle

FnSmooth(w) ==
    /\ fnOp = "idle"
    /\ fnOp' = "smoothData"
    /\ fnWindow' = w
    /\ fnOut' = smoothData(variant, fnData, w)
    /\ UNCHANGED <<fnData, fnTarget, fnArgs>>
    /\ UNCHANGED cardVars
    /\ UNCHANGED tempVars

FnSample(t) ==
    /\ fnOp = "idle"
    /\ fnOp' = "sampleData"
    /\ fnTarget' = t
    /\ fnOut' = sampleData(fnData, t)
    /\ UNCHANGED <<fnData, fnWindow, fnArgs>>
    /\ UNCHANGED cardVars
    /\ UNCHANGED tempVars

\* Ranges a series with the data d is stored with: the one of the simple
\* class, the buffered one of the Gaussian class, the initial one
FnRanges(d) ==
    IF d = <<>> THEN {[min |-> 0, max |-> 0]}
    ELSE {[min |-> SeqMin(d), max |-> SeqMax(d)],
          [min |-> ProcessGauss(d).min, max |-> ProcessGauss(d).max]}

\* generateGraphPath on the series [fnData, range] with the class's style
FnPath(range, includeBottom) ==
    /\ fnOp = "idle"
    /\ fnOp' = "generateGraphPath"
    /\ fnArgs' = [min |-> range.min, max |-> range.max,
                  includeBottom |-> includeBottom]
    /\ fnOut' = generateGraphPath(variant,
                    [data |-> fnData, min |-> range.min, max |-> range.max],
                    _graphHeight, _graphCurveTension, includeBottom)
    /\ UNCHANGED <<fnData, fnWindow, fnTarget>>
    /\ UNCHANGED cardVars
    /\ UNCHANGED tempVars

\* The parsing of a history: fnArgs holds the items, fnOut the raw data
FnParse(items) ==
    /\ fnOp = "idle"
    /\ fnData = <<>>
    /\ fnOp' = "RawData"
    /\ fnArgs' = items
    /\ fnOut' = RawData(items)
    /\ UNCHANGED <<fnData, fnWindow, fnTarget>>
    /\ UNCHANGED cardVars
    /\ UNCHANGED tempVars

NextFn ==
    \/ \E w \in 1..MaxWindow : FnSmooth(w)
    \/ \E t \in 1..MaxTarget : FnSample(t)
    \/ \E range \in FnRanges(fnData), b \in BOOLEAN : FnPath(range, b)
    \/ \E items \in SeqsUpTo(StateStrings, MaxLen) : FnParse(items)

SpecFn == InitFn /\ [][NextFn]_vars

----------------------------------------------------------------------------
(* Properties *)

\* A step in which a history request settles
Settles == Cardinality(pending') < Cardinality(pending)

\* The numeric samples of the fetch that produced the stored series
Input == Raw[source.items]

\* C1: when the history request rejects (or the response makes the try block
\* throw) while a series is stored, _graphData, _graphMin and _graphMax are
\* after the call what they were before it.
C1_FailureKeepsSeries ==
    [][(Settles /\ last' \in {"rejected", "threw"} /\ _graphData # <<>>)
        => Series' = Series]_vars

\* A request was rejected while a fetched series was on display
C1_Witness ==
    last = "rejected" /\ _graphData # <<>> /\ source.id > 0

\* C2: a fetch cycle without usable samples (entity absent from hass.states,
\* empty response, every state unparsable) leaves the stored series
\* unchanged, and with the entity absent no request is issued.
C2_NoSamplesKeepSeries ==
    [][/\ (Settles /\ last' \in {"empty", "unparsable"}) => Series' = Series
       /\ (hass' # hass /\ ~Requests(hass', _graphEntity))
             => (Series' = Series /\ pending' = pending /\ nextId' = nextId)]_vars

\* A response with only unparsable states arrived while a series was stored
C2_Witness ==
    last = "unparsable" /\ _graphData # <<>> /\ source.id > 0

\* C3: the stored triple is whole in every state a render can run in: it is
\* the initial triple or the triple computed from one single response.
C3_SeriesIsWhole ==
    \/ Series = InitSeries
    \/ \E h \in Histories :
          Len(Raw[h]) > 0 /\ Series = Processed[<<variant, h>>]

\* A render showed one series and a later fetch replaced it by another
C3_Witness ==
    /\ view.visible
    /\ _graphData # <<>>
    /\ view.points # Len(_graphData)
    /\ source.id > 1

\* C4: at most one history request is in flight at any time.
C4_OneInFlight == Cardinality(pending) <= 1

\* C5: the stored series is the one produced by the fetch that settled last
\* among those that yielded samples.
C5_LastCompletedWins ==
    Series = IF source.id = 0 THEN InitSeries
             ELSE Processed[<<variant, source.items>>]

\* Two requests overlapped and the one started first settled last, with data
C5_Witness ==
    /\ nextId = 3
    /\ pending = {}
    /\ last = "stored"
    /\ source.id = 1

\* C6: smoothData returns a sequence as long as its input, for every window
\* size, in both classes.
C6_SmoothingPreservesLength ==
    fnOp = "smoothData" => Len(fnOut) = Len(fnData)

\* The Gaussian smoothing ran on an input longer than the window
C6_Witness ==
    /\ fnOp = "smoothData"
    /\ variant = "gauss"
    /\ Len(fnData) > fnWindow
    /\ fnOut # fnData

C8_LastSampleKept ==
    (fnOp = "sampleData" /\ fnData # <<>> /\ fnTarget >= 1)
        => fnOut[Len(fnOut)] = fnData[Len(fnData)]

\* The input was downsampled and the stride alone did not end on its last
\* element's value
C8_Witness ==
    /\ fnOp = "sampleData"
    /\ Len(fnData) > fnTarget
    /\ fnTarget >= 2
    /\ fnOut[fnTarget] # fnData[Len(fnData)]

\* C9: whenever a series is stored, _graphMax - _graphMin >= 1 and
\* _graphMin <= min(input) <= max(input) <= _graphMax.
C9_RangeInvariant ==
    _graphData # <<>> =>
        /\ _graphMax - _graphMin >= Unit
        /\ _graphMin <= SeqMin(Input)
        /\ SeqMax(Input) <= _graphMax

\* C10: the stored range is floor(min - buffer) and ceil(max + buffer) with
\* buffer = max(1, (max - min) * 0.2); ten samples of 18 give 17 and 19.
C10_RangeComputation ==
    _graphData # <<>> =>
        LET lo == SeqMin(Input)
            hi == SeqMax(Input)
            fiveBuffers == IF hi - lo > 5 * Unit THEN hi - lo ELSE 5 * Unit
        IN  /\ _graphMin = ((5 * lo - fiveBuffers) \div (5 * Unit)) * Unit
            /\ _graphMax = -((-(5 * hi + fiveBuffers)) \div (5 * Unit)) * Unit
            /\ source.items = Flat(10, "18")
                  => (_graphMin = 17 * Unit /\ _graphMax = 19 * Unit)

----------------------------------------------------------------------------
(* The Curve Generator on degenerate series *)

\* The commands of a path, as a set
Ops(path) == {path[k].op : k \in 1..Len(path)}

\* C11: for an empty series generateGraphPath returns the empty string,
\* with or without the bottom edge; for a one-element series the stroke
\* path is a single move-to and no path has a cubic segment.
C11_DegeneratePaths ==
    fnOp = "generateGraphPath" =>
        /\ fnData = <<>> => fnOut = <<>>
        /\ Len(fnData) = 1 =>
              /\ fnOut[1].op = "M"
              /\ "C" \notin Ops(fnOut)
              /\ ~fnArgs.includeBottom => Len(fnOut) = 1

C11_Witness ==
    /\ fnOp = "generateGraphPath"
    /\ Len(fnData) = 1
    /\ ~fnArgs.includeBottom
    /\ Ops(fnOut) = {"M"}

\* The points of the stored series, as generateGraphPath computes them
StoredPoints == CurvePoints(variant, Series, _graphHeight)

\* C12: every curve point of every non-empty stored series lies inside
\* the viewport: x is a number, 0 <= x <= 500 and 0 <= y <= height.
C12_PointsInViewport ==
    \A i \in 1..Len(_graphData) :
        /\ ~StoredPoints[i].x.nan
        /\ 0 <= StoredPoints[i].x.num
        /\ StoredPoints[i].x.num <= Width * Unit
        /\ 0 <= StoredPoints[i].y.num
        /\ StoredPoints[i].y.num <= _graphHeight * Unit

----------------------------------------------------------------------------
(* Smoothing of short inputs *)

\* C14: smoothData returns an input of at most windowSize values
\* unchanged, in the same order; an output that differs from the input
\* comes from an input longer than the window.
C14_ShortInputUnchanged ==
    fnOp = "smoothData" =>
        /\ Len(fnData) <= fnWindow => fnOut = fnData
        /\ fnOut # fnData => Len(fnData) > fnWindow

C14_Witness ==
    /\ fnOp = "smoothData"
    /\ Len(fnData) = fnWindow
    /\ fnData = <<10 * Unit, 20 * Unit, 10 * Unit>>
    /\ fnOut = fnData

ScenarioD == <<10 * Unit, 20 * Unit, 10 * Unit, 20 * Unit, 10 * Unit>>

\* C15: smoothing [10, 20, 10, 20, 10] with window size 3 gives five
\* values, the interior ones strictly between 10 and 20, the two end
\* ones within [10, 20].
C15_ScenarioD ==
    (fnOp = "smoothData" /\ fnData = ScenarioD /\ fnWindow = 3) =>
        /\ Len(fnOut) = 5
        /\ \A i \in 2..4 : 10 * Unit < fnOut[i] /\ fnOut[i] < 20 * Unit
        /\ \A i \in {1, 5} : 10 * Unit <= fnOut[i] /\ fnOut[i] <= 20 * Unit

C15_Witness ==
    /\ fnOp = "smoothData"
    /\ fnData = ScenarioD
    /\ fnWindow = 3
    /\ fnOut # fnData

----------------------------------------------------------------------------
(* Configuration *)

\* C16: after setConfig with any numeric input the stored lookback hours
\* are within 1..168 and the stored curve tension within 0.1..1.0.
C16_StyleClamped ==
    /\ 1 <= _graphHours
    /\ _graphHours <= 168
    /\ variant = "gauss" =>
          (10 * Unit) \div 100 <= _graphCurveTension
          /\ _graphCurveTension <= 1 * Unit

\* C17: in the class that reads graph_line_width, setConfig stores 0 for
\* the option 0 and the default 2 only for an absent option; a render
\* with the stored width 0 and a graph to show hides the stroke path and
\* draws the fill path.
C17_ZeroWidthSuppressesStroke ==
    [][/\ \A c \in Configs :
            (variant = "gauss" /\ SetConfig(c)) =>
               /\ c.graph_line_width = {0} => _graphLineWidth' = 0
               /\ c.graph_line_width = {} =>
                     _graphLineWidth' = DefaultLineWidth
       /\ (Render /\ _graphLineWidth = 0 /\ view'.visible) =>
               ~view'.stroke /\ view'.fill]_vars

\* A graph rendered after graph_line_width = 0 was stored
C17_Witness ==
    /\ variant = "gauss"
    /\ _graphLineWidth = 0
    /\ view.visible
    /\ ~view.stroke
    /\ view.fill

----------------------------------------------------------------------------
(* Failures and parsing *)

\* C18: the promise returned by updateGraphData is never rejected, and
\* the step in which the request settles, with whatever outcome, or in
\* which the method returns at once, fulfils it.
C18_PromiseResolves ==
    [][/\ promise' # "rejected"
       /\ Settles => promise' = "fulfilled"
       /\ (hass' # hass /\ ~Requests(hass', _graphEntity)) =>
             promise' = "fulfilled"]_vars

C18_Witness ==
    /\ promise = "fulfilled"
    /\ last \in {"rejected", "threw"}

\* The positions of the items whose state parses as a number
Parsable(items) == {i \in 1..Len(items) : ~parseFloat(items[i]).nan}

\* The position of the k-th parsable item
KthParsable(items, k) ==
    CHOOSE i \in Parsable(items) :
        Cardinality({j \in Parsable(items) : j <= i}) = k

\* C19: the sequence handed to smoothing holds exactly the numeric values
\* of the items whose state parses as a number, in their original order:
\* one value per parsable item, none for the others.
C19_UnparsableDropped ==
    fnOp = "RawData" =>
        /\ Len(fnOut) = Cardinality(Parsable(fnArgs))
        /\ \A k \in 1..Len(fnOut) :
              fnOut[k] = parseFloat(fnArgs[KthParsable(fnArgs, k)]).num

C19_Witness ==
    /\ fnOp = "RawData"
    /\ fnArgs = <<"18", "unavailable", "21.5">>
    /\ fnOut = <<18 * Unit, (215 * Unit) \div 10>>

----------------------------------------------------------------------------
(* The stale fetch *)

\* C20: when a request settles with data after a request started later
\* has stored its series, the earlier request's series replaces the one
\* of the later request.
C20_StaleOverwrites ==
    [][\A r \in pending :
          (r \notin pending' /\ last' = "stored" /\ r.id < source.id) =>
             /\ source'.id = r.id
             /\ Series' = Processed[<<variant, source'.items>>]]_vars

\* A render showed the series of the second request, then the first
\* request settled and its series, of another length, replaced it
C20_Witness ==
    /\ nextId = 3
    /\ pending = {}
    /\ last = "stored"
    /\ source.id = 1
    /\ view.visible
    /\ view.points # Len(_graphData)
    /\ Series = Processed[<<variant, source.items>>]

----------------------------------------------------------------------------
(* The trigger of the Fetcher *)

\* An update cycle in which hass changed
HassChanged == \E h \in HassValues : Updated(h)

\* C21: an update cycle in which hass changed starts a history request
\* for the graph entity exactly when that entity is configured and
\* present in the states; every other step starts no request.
C21_HassChangeFetches ==
    [][/\ \A h \in HassValues :
            Updated(h) =>
               IF Requests(h, _graphEntity)
               THEN /\ nextId' = nextId + 1
                    /\ pending' \ pending =
                          {[id |-> nextId, entity |-> _graphEntity]}
               ELSE nextId' = nextId /\ pending' = pending
       /\ ~HassChanged => nextId' = nextId /\ pending' \subseteq pending]_vars

\* A second hass change started a second request beside the first
C21_Witness ==
    /\ nextId = 3
    /\ Cardinality(pending) = 2
    /\ last = "none"

----------------------------------------------------------------------------
(* Windows of the smoothing *)

\* C22: for every input longer than the window and every position the
\* window stays within the input, and every smoothed value lies between
\* the minimum and the maximum of the input.
C22_SmoothedWithinInput ==
    (fnOp = "smoothData" /\ Len(fnData) > fnWindow) =>
        \A i \in 1..Len(fnData) :
            /\ 1 <= WindowLo(i, fnWindow)
            /\ WindowLo(i, fnWindow) <= i
            /\ i <= WindowHi(i, Len(fnData), fnWindow)
            /\ WindowHi(i, Len(fnData), fnWindow) <= Len(fnData)
            /\ SeqMin(fnData) <= fnOut[i]
            /\ fnOut[i] <= SeqMax(fnData)

\* An end value smoothed over a truncated window
C22_Witness ==
    /\ fnOp = "smoothData"
    /\ Len(fnData) > fnWindow
    /\ fnWindow >= 3
    /\ fnOut[1] # fnData[1]
    /\ fnOut[1] # fnData[2]

----------------------------------------------------------------------------
(* Structure of the path *)

\* The arguments of the call recorded in fnArgs, as a series
FnSeries == [data |-> fnData, min |-> fnArgs.min, max |-> fnArgs.max]

\* C23: for every non-empty series the fill path is the stroke path
\* followed by a line to (width, height), a line to (0, height) and a
\* close command.
C23_FillClosesStroke ==
    (fnOp = "generateGraphPath" /\ fnData # <<>> /\ fnArgs.includeBottom) =>
        fnOut = generateGraphPath(variant, FnSeries, _graphHeight,
                                  _graphCurveTension, FALSE)
                \o << [op |-> "L", x |-> Num(Width * Unit),
                        y |-> Num(_graphHeight * Unit)],
                      [op |-> "L", x |-> Num(0),
                        y |-> Num(_graphHeight * Unit)],
                      [op |-> "Z"] >>

C23_Witness ==
    /\ fnOp = "generateGraphPath"
    /\ fnArgs.includeBottom
    /\ Len(fnData) = 3
    /\ Len(fnOut) = 6

\* C24: the stroke path of a series of n >= 1 values is a move-to at the
\* first curve point followed by n - 1 cubic segments, the i-th ending
\* at curve point i + 1.
C24_CurveThroughPoints ==
    (fnOp = "generateGraphPath" /\ fnData # <<>> /\ ~fnArgs.includeBottom) =>
        LET points == CurvePoints(variant, FnSeries, _graphHeight)
        IN  /\ Len(fnOut) = Len(fnData)
            /\ fnOut[1].op = "M"
            /\ fnOut[1].x = points[1].x /\ fnOut[1].y = points[1].y
            /\ \A i \in 1..(Len(fnData) - 1) :
                  /\ fnOut[i + 1].op = "C"
                  /\ fnOut[i + 1].x = points[i + 1].x
                  /\ fnOut[i + 1].y = points[i + 1].y

C24_Witness ==
    /\ fnOp = "generateGraphPath"
    /\ ~fnArgs.includeBottom
    /\ Len(fnData) = MaxLen
    /\ fnOut[MaxLen].op = "C"
    /\ fnOut[MaxLen].x = Num(Width * Unit)

----------------------------------------------------------------------------
(* The setpoints of the temperature control *)

\* C25: with a low/high pair, after any adjustments the displayed low
\* setpoint is at most the displayed high setpoint.
C25_LowAtMostHigh ==
    (_localLowTemperature # {} /\ _localHighTemperature # {}) =>
        The(_localLowTemperature) <= The(_localHighTemperature)

\* C26: every set_temperature call of the low/high controls carries the
\* pair displayed at the time of the call.
C26_CallCarriesDisplayedPair ==
    [][(sent' > sent /\ call'.temperature = {}) =>
          /\ call'.target_temp_low = _localLowTemperature'
          /\ call'.target_temp_high = _localHighTemperature']_vars

\* C27: after any adjustments the single setpoint displayed lies within
\* the limits of the entity: min_temp and max_temp, 7 and 35 when the
\* attribute is absent.
C27_SetpointWithinLimits ==
    _localTemperature # {} =>
        /\ MinTemp(entity) <= The(_localTemperature)
        /\ The(_localTemperature) <= MaxTemp(entity)

\* C28: a step of the control that sends no service call is a change
\* of the entity property, and it resets the three local setpoints to the
\* entity's temperature, target_temp_low and target_temp_high; a step
\* that sends one is an adjust operation: it leaves the entity alone and
\* changes at most its own setpoint, to the value it sends.
C28_HostOverridesLocal ==
    [][IF sent' = sent
       THEN /\ _localTemperature' = entity'.temperature
            /\ _localLowTemperature' = entity'.target_temp_low
            /\ _localHighTemperature' = entity'.target_temp_high
       ELSE /\ entity' = entity
            /\ _localTemperature' # _localTemperature =>
                  /\ call'.temperature = _localTemperature'
                  /\ UNCHANGED <<_localLowTemperature, _localHighTemperature>>
            /\ _localLowTemperature' # _localLowTemperature =>
                  /\ call'.target_temp_low = _localLowTemperature'
                  /\ UNCHANGED <<_localTemperature, _localHighTemperature>>
            /\ _localHighTemperature' # _localHighTemperature =>
                  /\ call'.target_temp_high = _localHighTemperature'
                  /\ UNCHANGED <<_localTemperature, _localLowTemperature>>
      ]_vars

\* The low setpoint was adjusted, then the host changed the entity and
\* the adjusted value gave way to the entity's
C28_Witness ==
    /\ sent = 1
    /\ call.target_temp_low # {}
    /\ call.target_temp_low # _localLowTemperature
    /\ call.target_temp_low # entity.target_temp_low
    /\ _localLowTemperature = entity.target_temp_low
    /\ _localHighTemperature = entity.target_temp_high

----------------------------------------------------------------------------
(* The entity of the displayed series *)

\* C29: whenever render() displays a graph, the stored series was fetched
\* for the graph entity configured at that time.
C29_GraphOfConfiguredEntity ==
    (_graphEntity # "" /\ Len(_graphData) > 0) => source.entity = _graphEntity

----------------------------------------------------------------------------
(* The active control *)

\* C30: after every step _activeControl is one of the controls offered,
\* or undefined when none is offered; a setConfig or a hass change leaves
\* an active control that is still offered as it is and otherwise
\* selects the first control offered.
C30_ActiveControlOffered ==
    [][LET offered == Controls(_config', hass')
       IN  /\ offered # <<>> => \E i \in 1..Len(offered) :
                                   _activeControl' = {offered[i]}
           /\ offered = <<>> => _activeControl' = {}
           /\ (_config' # _config \/ hass' # hass) =>
                 IF \E i \in 1..Len(offered) : _activeControl = {offered[i]}
                 THEN _activeControl' = _activeControl
                 ELSE offered # <<>> => _activeControl' = {offered[1]}]_vars

\* The fan control, tapped active, outlived a change that added the
\* temperature control before it
C30_Witness ==
    /\ _activeControl = {"fan_mode_control"}
    /\ Len(Controls(_config, hass)) = 3
    /\ last = "noentity"

====
